---- MODULE Spec2Model ----
(***************************************************************************)
(* Construction and lifetime of webexteamssdk.api.WebexTeamsAPI             *)
(* (src/zvenvPy3/lib/python3.10/site-packages/webexteamssdk/api/__init__.py)*)
(*                                                                          *)
(* One behaviour is one call WebexTeamsAPI(...): the arguments of the call  *)
(* and the value of the module constant WEBEX_TEAMS_ACCESS_TOKEN are chosen *)
(* in Init, __init__ then runs statement by statement (pc), and after a     *)
(* successful return the caller uses the client's properties.               *)
(***************************************************************************)
EXTENDS Naturals, Sequences, FiniteSets

VARIABLES
    call,           \* the arguments as the caller wrote them (Omitted = not passed)
    env,            \* WEBEX_TEAMS_ACCESS_TOKEN, read from the environment at import
    pc,             \* position inside __init__, "done" once it has returned or raised
    access_token,   \* the local variable access_token of __init__ (from line 134 on)
    envRead,        \* line 134 evaluated the right operand WEBEX_TEAMS_ACCESS_TOKEN
    access_tokens,  \* self.access_tokens
    session,        \* self._session
    wrappers,       \* the session-backed self.<name> wrappers, in creation order
    exchangeCalls,  \* the calls self.access_tokens.get(...) made so far
    exchanged,      \* what the token exchange produced
    result,         \* what the constructor call evaluated to
    errArg,         \* the argument a TypeError names
    nops,           \* operations the caller performed on the client
    lastOp          \* the last such operation and what it gave

vars == <<call, env, pc, access_token, envRead, access_tokens, session, wrappers,
          exchangeCalls, exchanged, result, errArg, nops, lastOp>>

(***************************************************************************)
(* Python values: a type name and a printed value.                          *)
(***************************************************************************)
PyStr(s)  == [type |-> "str", val |-> s]
PyInt(s)  == [type |-> "int", val |-> s]
PyBool(s) == [type |-> "bool", val |-> s]
PyDict(s) == [type |-> "dict", val |-> s]
None      == [type |-> "NoneType", val |-> "None"]
\* A parameter the caller did not pass: its default is bound instead.
Omitted   == [type |-> "omitted", val |-> "omitted"]

\* Python truth value of an object (the operands of `or`, `not` and all()).
Truthy(o) ==
    CASE o.type = "NoneType" -> FALSE
      [] o.type = "str"      -> o.val # ""
      [] o.type = "int"      -> o.val # "0"
      [] o.type = "bool"     -> o.val = "True"
      [] o.type = "dict"     -> o.val # "{}"
      [] OTHER               -> TRUE

\* isinstance(o, T); bool is a subclass of int.
IsInstance(o, T) ==
    \/ o.type = T
    \/ T = "int" /\ o.type = "bool"

\* webexteamssdk.utils.check_type(o, acceptable_types, may_be_none): TRUE when
\* it returns, FALSE when it raises TypeError.
check_type(o, T, may_be_none) ==
    \/ may_be_none /\ o = None
    \/ IsInstance(o, T)

\* The defaults of the signature, imported from webexteamssdk.config.
DEFAULT_BASE_URL               == PyStr("DEFAULT_BASE_URL")
DEFAULT_SINGLE_REQUEST_TIMEOUT == PyInt("DEFAULT_SINGLE_REQUEST_TIMEOUT")
DEFAULT_WAIT_ON_RATE_LIMIT     == PyBool("DEFAULT_WAIT_ON_RATE_LIMIT")

(***************************************************************************)
(* The call.                                                                *)
(***************************************************************************)
\* Effective value of a parameter: the argument if passed, else the default.
Effective(passed, default) == IF passed = Omitted THEN default ELSE passed

\* The parameters of __init__ bound to the call's arguments (object_factory is
\* not bound here: it only shapes the object the token exchange returns).
BindArgs(c) ==
    [access_token           |-> Effective(c.access_token, None),
     base_url               |-> Effective(c.base_url, DEFAULT_BASE_URL),
     single_request_timeout |-> Effective(c.single_request_timeout,
                                          DEFAULT_SINGLE_REQUEST_TIMEOUT),
     wait_on_rate_limit     |-> Effective(c.wait_on_rate_limit,
                                          DEFAULT_WAIT_ON_RATE_LIMIT),
     client_id              |-> Effective(c.client_id, None),
     client_secret          |-> Effective(c.client_secret, None),
     oauth_code             |-> Effective(c.oauth_code, None),
     redirect_uri           |-> Effective(c.redirect_uri, None),
     proxies                |-> Effective(c.proxies, None)]

args == BindArgs(call)

\* An argument of a type no parameter accepts where it is used below.
BadStr  == PyInt("7")
BadInt  == PyStr("sixty")
BadBool == PyInt("1")
BadDict == PyStr("http://proxy")

\* The arguments the model tries for each parameter.  For the parameters whose
\* default is None, passing None and passing nothing are the same call.  For
\* base_url, single_request_timeout and wait_on_rate_limit an explicit None is
\* not tried: RestSession's own validation would judge it.
AccessTokenArgs == {None, PyStr(""), PyStr("tokA"), BadStr}
BaseUrlArgs     == {Omitted, PyStr("https://other/v1/"), BadStr}
TimeoutArgs     == {Omitted, PyInt("30"), BadInt}
WaitArgs        == {Omitted, PyBool("False"), BadBool}
ProxiesArgs     == {None, PyDict("{https: proxy}"), BadDict}
OAuthArgs(v)    == {None, PyStr(""), PyStr(v), BadStr}
EnvValues       == {None, PyStr(""), PyStr("tokE")}

Calls ==
    [access_token           : AccessTokenArgs,
     base_url               : BaseUrlArgs,
     single_request_timeout : TimeoutArgs,
     wait_on_rate_limit     : WaitArgs,
     client_id              : OAuthArgs("cid"),
     client_secret          : OAuthArgs("secret"),
     oauth_code             : OAuthArgs("code"),
     redirect_uri           : OAuthArgs("uri"),
     proxies                : ProxiesArgs]

\* The arguments of call c that are of a wrong type.
BadArgs(c) == {p \in DOMAIN c : c[p] \in {BadStr, BadInt, BadBool, BadDict}}

\* The most wrongly typed arguments in one call.
MaxBadArgs == 2

(***************************************************************************)
(* Lines 124-132: the type checks, in order.                                *)
(***************************************************************************)
\* Faulty variant: proxies is not checked.
CheckedParams_NoProxies ==
    << <<"access_token", "str", TRUE>>,
       <<"base_url", "str", TRUE>>,
       <<"single_request_timeout", "int", TRUE>>,
       <<"wait_on_rate_limit", "bool", TRUE>>,
       <<"client_id", "str", TRUE>>,
       <<"client_secret", "str", TRUE>>,
       <<"oauth_code", "str", TRUE>>,
       <<"redirect_uri", "str", TRUE>> >>

\* <<parameter, expected type, may_be_none>>; may_be_none is passed only for
\* the last five, the first four rely on check_type's default.
CheckedParams ==
    << <<"access_token", "str", TRUE>>,
       <<"base_url", "str", TRUE>>,
       <<"single_request_timeout", "int", TRUE>>,
       <<"wait_on_rate_limit", "bool", TRUE>>,
       <<"client_id", "str", TRUE>>,
       <<"client_secret", "str", TRUE>>,
       <<"oauth_code", "str", TRUE>>,
       <<"redirect_uri", "str", TRUE>>,
       <<"proxies", "dict", TRUE>> >>

\* The checks that raise for the bound arguments a.
Offenders(a) ==
    {i \in 1..Len(CheckedParams) :
        ~check_type(a[CheckedParams[i][1]], CheckedParams[i][2], CheckedParams[i][3])}

\* The first check that raises (the statements run in order).
FirstOffender(a) == CHOOSE i \in Offenders(a) : \A j \in Offenders(a) : i <= j

(***************************************************************************)
(* Lines 134-159: which token is used.                                      *)
(***************************************************************************)
\* Faulty variant: WEBEX_TEAMS_ACCESS_TOKEN or access_token.
ResolveToken_EnvFirst(explicit, e) == IF Truthy(e) THEN e ELSE explicit

\* Faulty variant: the environment token is never used.
ResolveToken_NoEnv(explicit, e) == explicit

\* access_token or WEBEX_TEAMS_ACCESS_TOKEN
ResolveToken(explicit, e) == IF Truthy(explicit) THEN explicit ELSE e

\* oauth_param_list
oauth_param_list(a) == <<a.client_id, a.client_secret, a.oauth_code, a.redirect_uri>>

\* Faulty variant: any(xs).
All_Any(xs) == \E i \in 1..Len(xs) : Truthy(xs[i])

\* all(xs)
All(xs) == \A i \in 1..Len(xs) : Truthy(xs[i])

\* Faulty variant: all(oauth_param_list), whether or not a token is there.
ShouldExchange_Always(token, a) == All(oauth_param_list(a))

\* not access_token and all(oauth_param_list)
ShouldExchange(token, a) == ~Truthy(token) /\ All(oauth_param_list(a))

\* Faulty variant: client_id and client_secret passed for each other.
ExchangeArgs_Swapped(a) ==
    [client_id     |-> a.client_secret,
     client_secret |-> a.client_id,
     code          |-> a.oauth_code,
     redirect_uri  |-> a.redirect_uri]

\* The keyword arguments of self.access_tokens.get(...).
ExchangeArgs(a) ==
    [client_id     |-> a.client_id,
     client_secret |-> a.client_secret,
     code          |-> a.oauth_code,
     redirect_uri  |-> a.redirect_uri]

\* What evaluating self.access_tokens.get(...).access_token can give: the
\* request raises (no connection, or a non-success response), or an object
\* comes back whose access_token is a token, or is None or empty when the
\* response carried none.
ExchangeOutcomes ==
    {[kind |-> "raise", exc |-> "NetworkFailure", token |-> None],
     [kind |-> "raise", exc |-> "NonSuccessResponse", token |-> None],
     [kind |-> "return", exc |-> "none", token |-> PyStr("tokX")],
     [kind |-> "return", exc |-> "none", token |-> PyStr("")],
     [kind |-> "return", exc |-> "none", token |-> None]}

NoExchange == [kind |-> "none", exc |-> "none", token |-> None]

\* Faulty variant: if access_token is None.
TokenMissing_OnlyNone(token) == token = None

\* if not access_token: raise AccessTokenError
TokenMissing(token) == ~Truthy(token)

(***************************************************************************)
(* Lines 136-140 and 161-187: the objects self holds.                       *)
(***************************************************************************)
\* AccessTokensAPI(base_url, object_factory, single_request_timeout=...): it
\* is given neither the session, nor wait_on_rate_limit, nor proxies.
NewAccessTokensAPI(a) ==
    [exists                 |-> TRUE,
     base_url               |-> a.base_url,
     single_request_timeout |-> a.single_request_timeout,
     wait_on_rate_limit     |-> None,
     proxies                |-> None]

NoAccessTokensAPI ==
    [exists |-> FALSE, base_url |-> None, single_request_timeout |-> None,
     wait_on_rate_limit |-> None, proxies |-> None]

\* The keyword arguments of the call RestSession(...) at lines 165-171.
SessionKwargs(token, a) ==
    [access_token           |-> token,
     base_url               |-> a.base_url,
     single_request_timeout |-> a.single_request_timeout,
     wait_on_rate_limit     |-> a.wait_on_rate_limit,
     proxies                |-> a.proxies]

\* webexteamssdk.restsession.RestSession: the session keeps the configuration
\* it is constructed with, under the names the properties read.
RestSession(kw) ==
    [exists                 |-> TRUE,
     access_token           |-> kw.access_token,
     base_url               |-> kw.base_url,
     single_request_timeout |-> kw.single_request_timeout,
     wait_on_rate_limit     |-> kw.wait_on_rate_limit,
     proxies                |-> kw.proxies]

NoRestSession ==
    [exists |-> FALSE, access_token |-> None, base_url |-> None,
     single_request_timeout |-> None, wait_on_rate_limit |-> None,
     proxies |-> None]

\* The wrappers built on self._session, in the order of lines 174-187.
WrapperOrder ==
    <<"people", "rooms", "memberships", "messages", "teams", "team_memberships",
      "webhooks", "organizations", "licenses", "roles", "events", "guest_issuer">>

(***************************************************************************)
(* Lines 189-207: the client's properties.  Each has a getter and no       *)
(* setter.                                                                  *)
(***************************************************************************)
ClientProperties ==
    {"access_token", "base_url", "single_request_timeout", "wait_on_rate_limit"}

\* api.<p>: return self._session.<p>
PropertyValue(s, p) == s[p]

\* Faulty variant: the property has a setter that stores into the session.
AssignProperty_Stores(s, p, v) == [s EXCEPT ![p] = v]

\* api.<p> = v: a property without a setter raises AttributeError and stores
\* nothing, so the session is what it was.
AssignProperty(s, p, v) == s

\* The values a caller tries to assign.
AssignedValues == {PyStr("changed")}

\* The most operations a caller performs on one client.
MaxOps == 2

NoOp == [op |-> "none", name |-> "none", value |-> None, raised |-> "none"]

(***************************************************************************)
(* The state machine.                                                       *)
(***************************************************************************)
Init ==
    /\ call \in {c \in Calls : Cardinality(BadArgs(c)) <= MaxBadArgs}
    /\ env \in EnvValues
    /\ pc = "check_types"
    /\ access_token = None
    /\ envRead = FALSE
    /\ access_tokens = NoAccessTokensAPI
    /\ session = NoRestSession
    /\ wrappers = <<>>
    /\ exchangeCalls = <<>>
    /\ exchanged = NoExchange
    /\ result = "pending"
    /\ errArg = "none"
    /\ nops = 0
    /\ lastOp = NoOp

\* Lines 124-132, when one of the checks raises TypeError.
TypeCheckFails ==
    /\ pc = "check_types"
    /\ Offenders(args) # {}
    /\ result' = "TypeError"
    /\ errArg' = CheckedParams[FirstOffender(args)][1]
    /\ pc' = "done"
    /\ UNCHANGED <<call, env, access_token, envRead, access_tokens, session,
                   wrappers, exchangeCalls, exchanged, nops, lastOp>>

\* Lines 124-132, when every check passes.
TypeCheckPasses ==
    /\ pc = "check_types"
    /\ Offenders(args) = {}
    /\ pc' = "resolve"
    /\ UNCHANGED <<call, env, access_token, envRead, access_tokens, session,
                   wrappers, exchangeCalls, exchanged, result, errArg, nops, lastOp>>

\* Line 134.  `or` evaluates its right operand only when the left is falsy.
Resolve ==
    /\ pc = "resolve"
    /\ access_token' = ResolveToken(args.access_token, env)
    /\ envRead' = ~Truthy(args.access_token)
    /\ pc' = "init_access_tokens"
    /\ UNCHANGED <<call, env, access_tokens, session, wrappers, exchangeCalls,
                   exchanged, result, errArg, nops, lastOp>>

\* Lines 136-140.
InitAccessTokens ==
    /\ pc = "init_access_tokens"
    /\ access_tokens' = NewAccessTokensAPI(args)
    /\ pc' = "oauth"
    /\ UNCHANGED <<call, env, access_token, envRead, session, wrappers,
                   exchangeCalls, exchanged, result, errArg, nops, lastOp>>

\* Lines 143-150, the condition true: one call of self.access_tokens.get.  An
\* exception of the call leaves __init__; a returned object's access_token is
\* assigned to the local variable, whatever it is.
OAuthExchange ==
    /\ pc = "oauth"
    /\ ShouldExchange(access_token, args)
    /\ exchangeCalls' = Append(exchangeCalls, ExchangeArgs(args))
    /\ \E o \in ExchangeOutcomes :
          /\ exchanged' = o
          /\ IF o.kind = "raise"
                THEN /\ result' = o.exc
                     /\ pc' = "done"
                     /\ UNCHANGED access_token
                ELSE /\ access_token' = o.token
                     /\ pc' = "check_token"
                     /\ UNCHANGED result
    /\ UNCHANGED <<call, env, envRead, access_tokens, session, wrappers,
                   errArg, nops, lastOp>>

\* Lines 143-144, the condition false.
OAuthSkipped ==
    /\ pc = "oauth"
    /\ ~ShouldExchange(access_token, args)
    /\ pc' = "check_token"
    /\ UNCHANGED <<call, env, access_token, envRead, access_tokens, session,
                   wrappers, exchangeCalls, exchanged, result, errArg, nops, lastOp>>

\* Lines 154-159, no token: raise AccessTokenError.
TokenCheckFails ==
    /\ pc = "check_token"
    /\ TokenMissing(access_token)
    /\ result' = "AccessTokenError"
    /\ pc' = "done"
    /\ UNCHANGED <<call, env, access_token, envRead, access_tokens, session,
                   wrappers, exchangeCalls, exchanged, errArg, nops, lastOp>>

\* Line 154, a token is there.
TokenCheckPasses ==
    /\ pc = "check_token"
    /\ ~TokenMissing(access_token)
    /\ pc' = "create_session"
    /\ UNCHANGED <<call, env, access_token, envRead, access_tokens, session,
                   wrappers, exchangeCalls, exchanged, result, errArg, nops, lastOp>>

\* Lines 165-171.
CreateSession ==
    /\ pc = "create_session"
    /\ session' = RestSession(SessionKwargs(access_token, args))
    /\ pc' = "create_wrappers"
    /\ UNCHANGED <<call, env, access_token, envRead, access_tokens, wrappers,
                   exchangeCalls, exchanged, result, errArg, nops, lastOp>>

\* Lines 174-187, one assignment self.<name> = <Name>API(self._session, ...).
CreateWrapper ==
    /\ pc = "create_wrappers"
    /\ Len(wrappers) < Len(WrapperOrder)
    /\ wrappers' = Append(wrappers, WrapperOrder[Len(wrappers) + 1])
    /\ UNCHANGED <<call, env, pc, access_token, envRead, access_tokens, session,
                   exchangeCalls, exchanged, result, errArg, nops, lastOp>>

\* The end of __init__: the call evaluates to the new object.
Return ==
    /\ pc = "create_wrappers"
    /\ Len(wrappers) = Len(WrapperOrder)
    /\ result' = "client"
    /\ pc' = "done"
    /\ UNCHANGED <<call, env, access_token, envRead, access_tokens, session,
                   wrappers, exchangeCalls, exchanged, errArg, nops, lastOp>>

\* The caller reads a property of the client.
GetProperty ==
    /\ result = "client"
    /\ nops < MaxOps
    /\ \E p \in ClientProperties :
          lastOp' = [op |-> "get", name |-> p,
                     value |-> PropertyValue(session, p), raised |-> "none"]
    /\ nops' = nops + 1
    /\ UNCHANGED <<call, env, pc, access_token, envRead, access_tokens, session,
                   wrappers, exchangeCalls, exchanged, result, errArg>>

\* The caller assigns to a property of the client.
SetProperty ==
    /\ result = "client"
    /\ nops < MaxOps
    /\ \E p \in ClientProperties, v \in AssignedValues :
          /\ session' = AssignProperty(session, p, v)
          /\ lastOp' = [op |-> "set", name |-> p, value |-> v,
                        raised |-> "AttributeError"]
    /\ nops' = nops + 1
    /\ UNCHANGED <<call, env, pc, access_token, envRead, access_tokens,
                   wrappers, exchangeCalls, exchanged, result, errArg>>

Next ==
    \/ TypeCheckFails
    \/ TypeCheckPasses
    \/ Resolve
    \/ InitAccessTokens
    \/ OAuthExchange
    \/ OAuthSkipped
    \/ TokenCheckFails
    \/ TokenCheckPasses
    \/ CreateSession
    \/ CreateWrapper
    \/ Return
    \/ GetProperty
    \/ SetProperty

Spec == Init /\ [][Next]_vars

(***************************************************************************)
(* Vocabulary of the properties, stated on the call and on what the caller  *)
(* can observe.                                                             *)
(***************************************************************************)
Done == pc = "done"

\* A non-empty string was given.
Supplied(o) == o.type = "str" /\ o.val # ""

\* Nothing usable was given: None or the empty string.
Absent(o) == o = None \/ o = PyStr("")

\* The type each parameter is declared to take.
DeclaredType ==
    [access_token |-> "str", base_url |-> "str", single_request_timeout |-> "int",
     wait_on_rate_limit |-> "bool", client_id |-> "str", client_secret |-> "str",
     oauth_code |-> "str", redirect_uri |-> "str", proxies |-> "dict"]

\* The parameters whose argument is of another type than declared.
WrongTypeArgs ==
    {p \in DOMAIN DeclaredType :
        call[p] # Omitted /\ call[p] # None /\ call[p].type # DeclaredType[p]}

OAuthGiven ==
    {p \in {"client_id", "client_secret", "oauth_code", "redirect_uri"} :
        Supplied(call[p])}

\* The four properties as the caller reads them.
ClientToken   == PropertyValue(session, "access_token")
ClientBaseUrl == PropertyValue(session, "base_url")
ClientTimeout == PropertyValue(session, "single_request_timeout")
ClientWait    == PropertyValue(session, "wait_on_rate_limit")

AllWrappers == {WrapperOrder[i] : i \in 1..Len(WrapperOrder)}
Created     == {wrappers[i] : i \in 1..Len(wrappers)}

\* C1: a call with a non-empty explicit access_token and well-typed arguments
\* returns a client whose access_token is that token, whatever the environment
\* token and the OAuth parameters are.
C1_ExplicitTokenWins ==
    (Done /\ Supplied(call.access_token) /\ WrongTypeArgs = {})
        => (result = "client" /\ ClientToken = call.access_token)

C1_Witness ==
    /\ result = "client"
    /\ call.access_token = PyStr("tokA")
    /\ env = PyStr("tokE")
    /\ Cardinality(OAuthGiven) = 4
    /\ ClientToken = PyStr("tokA")

\* C2: a call without an explicit access_token (None or empty), with a
\* non-empty environment token and well-typed arguments, returns a client whose
\* access_token is the environment token, whatever the OAuth parameters are.
C2_EnvTokenUsed ==
    (Done /\ Absent(call.access_token) /\ Supplied(env) /\ WrongTypeArgs = {})
        => (result = "client" /\ ClientToken = env)

C2_Witness ==
    /\ result = "client"
    /\ call.access_token = PyStr("")
    /\ env = PyStr("tokE")
    /\ Cardinality(OAuthGiven) = 4
    /\ ClientToken = PyStr("tokE")

\* C3: without explicit and environment token and with all four OAuth
\* parameters, construction makes exactly one token-exchange call, with those
\* four values, and a client that is returned has the token that call returned.
C3_OneExchangeAdopted ==
    /\ Len(exchangeCalls) <= 1
    /\ (Done /\ Absent(call.access_token) /\ Absent(env)
             /\ Cardinality(OAuthGiven) = 4 /\ WrongTypeArgs = {})
          => /\ exchangeCalls =
                   << [client_id |-> call.client_id,
                       client_secret |-> call.client_secret,
                       code |-> call.oauth_code,
                       redirect_uri |-> call.redirect_uri] >>
             /\ result = "client" =>
                   (exchanged.kind = "return" /\ ClientToken = exchanged.token)
             /\ (exchanged.kind = "return" /\ Supplied(exchanged.token)) =>
                   result = "client"

C3_Witness ==
    /\ result = "client"
    /\ call.access_token = None
    /\ env = None
    /\ Len(exchangeCalls) = 1
    /\ ClientToken = PyStr("tokX")

\* C4: without explicit and environment token and with exactly three of the
\* four OAuth parameters, construction raises AccessTokenError and the token
\* exchange is never called.
C4_PartialOAuthFails ==
    (Absent(call.access_token) /\ Absent(env) /\ Cardinality(OAuthGiven) = 3
        /\ WrongTypeArgs = {})
        => /\ exchangeCalls = <<>>
           /\ result # "client"
           /\ Done => result = "AccessTokenError"

C4_Witness ==
    /\ Done
    /\ result = "AccessTokenError"
    /\ Absent(call.access_token) /\ Absent(env)
    /\ Cardinality(OAuthGiven) = 3
    /\ call.redirect_uri = PyStr("")

\* The errors construction can end with.
Errors == {"TypeError", "AccessTokenError", "NetworkFailure", "NonSuccessResponse"}

\* No credential source gave a token.
NoTokenYielded ==
    /\ Absent(call.access_token)
    /\ Absent(env)
    /\ ~(exchanged.kind = "return" /\ Supplied(exchanged.token))

ExchangeFailed ==
    \/ exchanged.kind = "raise"
    \/ exchanged.kind = "return" /\ ~Supplied(exchanged.token)

\* C6: a failed token exchange ends construction with an error that is not
\* the AccessTokenError of "no credential supplied".
C6_ExchangeFailureDistinct ==
    (Done /\ ExchangeFailed) => (result \in Errors /\ result # "AccessTokenError")

\* The effective value of parameter p of the call: the argument, else default d.
EffectiveArg(p, d) == IF call[p] = Omitted THEN d ELSE call[p]

\* C7: in every state of a returned client, before and after any operation on
\* it, base_url, single_request_timeout and wait_on_rate_limit read as the
\* effective values of the call.
C7_ConfigFixed ==
    result = "client" =>
        /\ ClientBaseUrl = EffectiveArg("base_url", DEFAULT_BASE_URL)
        /\ ClientTimeout = EffectiveArg("single_request_timeout",
                                        DEFAULT_SINGLE_REQUEST_TIMEOUT)
        /\ ClientWait = EffectiveArg("wait_on_rate_limit", DEFAULT_WAIT_ON_RATE_LIMIT)

C7_Witness ==
    /\ result = "client"
    /\ nops >= 2
    /\ lastOp.op = "set"
    /\ lastOp.name = "single_request_timeout"
    /\ call.base_url = Omitted
    /\ call.single_request_timeout = PyInt("30")
    /\ call.wait_on_rate_limit = PyBool("False")

\* The configuration an object works with.
ConfigOf(o) ==
    [base_url |-> o.base_url, single_request_timeout |-> o.single_request_timeout,
     wait_on_rate_limit |-> o.wait_on_rate_limit, proxies |-> o.proxies]

\* access_tokens works with what it was constructed with; every other handle
\* was handed self._session.
HandleConfig(h) ==
    IF h = "access_tokens" THEN ConfigOf(access_tokens) ELSE ConfigOf(session)

\* C8: every handle of a returned client, access_tokens included, has the
\* base URL, timeout, rate-limit flag and proxies of the client's session.
C8_HandlesShareSession ==
    result = "client" =>
        \A h \in Created \cup {"access_tokens"} : HandleConfig(h) = ConfigOf(session)

\* C9: while an argument is of a wrong type, the environment token is not
\* read, no handle and no session is created and no token exchange is called;
\* construction ends with a TypeError naming such an argument, even when a
\* credential is there.
C9_TypeCheckFirst ==
    WrongTypeArgs # {} =>
        /\ ~envRead
        /\ ~access_tokens.exists
        /\ ~session.exists
        /\ wrappers = <<>>
        /\ exchangeCalls = <<>>
        /\ result \in {"pending", "TypeError"}
        /\ Done => (result = "TypeError" /\ errArg \in WrongTypeArgs)

C9_Witness ==
    /\ Done
    /\ result = "TypeError"
    /\ errArg = "proxies"
    /\ call.access_token = PyStr("tokA")
    /\ env = PyStr("tokE")
    /\ Cardinality(OAuthGiven) = 4

\* C10: the token exchange is called at most once, and only when explicit and
\* environment token are both absent or empty and all four OAuth parameters
\* are non-empty; with a token present, one to three OAuth parameters are
\* ignored and construction returns a client with that token.
C10_ExchangeOnlyWhenNeeded ==
    /\ Len(exchangeCalls) <= 1
    /\ exchangeCalls # <<>> =>
          /\ Absent(call.access_token)
          /\ Absent(env)
          /\ Cardinality(OAuthGiven) = 4
    /\ (Done /\ WrongTypeArgs = {}
             /\ (Supplied(call.access_token) \/ Supplied(env))
             /\ Cardinality(OAuthGiven) \in 1..3)
          => /\ result = "client"
             /\ exchangeCalls = <<>>
             /\ ClientToken = IF Supplied(call.access_token)
                                 THEN call.access_token ELSE env

C10_Witness ==
    /\ result = "client"
    /\ Absent(call.access_token)
    /\ env = PyStr("tokE")
    /\ Cardinality(OAuthGiven) = 2
    /\ exchangeCalls = <<>>

====
